---- MODULE Spec2Model ----
(***************************************************************************)
(* A model of rest-in-pytest: the given/when/then chain                    *)
(*   Rip.given() -> ConfigBuilder -> when() -> RequestBuilder -> then()    *)
(* with the RequestSpecs and RequestConfig objects the chain keeps.        *)
(*                                                                         *)
(* Python objects that are shared by reference (the RequestConfig a        *)
(* ConfigBuilder hands to each RequestBuilder, a RequestConfig returned by *)
(* copy()) live in a heap: a sequence of parameter dicts, a reference      *)
(* being an index into it.                                                 *)
(***************************************************************************)
EXTENDS Integers, Sequences, FiniteSets, TLC

VARIABLES
    heap,           \* heap[r]: the `parameters` dict of RequestConfig object r
    request_specs,  \* the first ConfigBuilder's RequestSpecs: field -> value
    dispatchers,    \* the RequestBuilders made by when(), in creation order
    builders,       \* the ConfigBuilders of later given() calls, in call order
    last            \* what the most recent call was, raised, returned and sent

vars == <<heap, request_specs, dispatchers, builders, last>>

----------------------------------------------------------------------------
(* Bounds of the exploration.                                              *)

\* RequestConfig objects alive at once (the builder's one and its copies).
MaxStores == 2
\* RequestBuilders one ConfigBuilder hands out.
MaxDispatchers == 1
\* RequestSpecs fields set at once in the setter-only exploration.
MaxFieldsSet == 2
\* Expectations chained in one expression.
MaxChained == 3

----------------------------------------------------------------------------
(* Python values.  A value is its runtime type and its contents; the       *)
(* contents are a set of numbered items: the entries of a dict, the        *)
(* elements of a list or tuple, one item for a scalar.                     *)

PyValue(t, items) == [type |-> t, val |-> items]

None == PyValue("NoneType", {})
StrA == PyValue("str", {1})
StrB == PyValue("str", {2})
Int1 == PyValue("int", {1})
Float1 == PyValue("float", {1})
True == PyValue("bool", {1})
False == PyValue("bool", {0})
DictA == PyValue("dict", {1})
DictB == PyValue("dict", {2})
List1 == PyValue("list", {1})
Tuple1 == PyValue("tuple", {1, 2})
Bytes1 == PyValue("bytes", {1})
File1 == PyValue("BufferedReader", {1})
\* Strings used as base URLs: "http://x.test/api/" and "http://x.test/v2".
UrlA == PyValue("str", {10})
UrlB == PyValue("str", {11})

\* The classes a runtime type is an instance of (bool subclasses int).
Classes(t) == IF t = "bool" THEN {"bool", "int"} ELSE {t}

isinstance(v, classes) == Classes(v.type) \cap classes # {}

\* The values RequestConfig.update lets through and those it refuses.
AcceptedValues == {StrA, Int1, Float1, True, DictA, DictB, List1}
RefusedValues == {Tuple1, Bytes1, File1}
Values == AcceptedValues \cup RefusedValues

----------------------------------------------------------------------------
(* RequestConfig: pure operators on one `parameters` dict.                 *)

EmptyDict == <<>>

NoError == "none"
NoKey == ""

RequestConfig_init == EmptyDict

\* __getitem__: parameters[key]; a missing key raises KeyError.
RequestConfig_getitem(parameters, key) ==
    IF key \in DOMAIN parameters
    THEN [raised |-> NoError, key |-> NoKey, value |-> parameters[key]]
    ELSE [raised |-> "KeyError", key |-> key, value |-> None]

\* __setitem__: parameters[key] = value, whatever the value.
RequestConfig_setitem(parameters, key, value) ==
    (key :> value) @@ parameters

\* UpdateAccepts with the type compared exactly (type(v) in ...), which
\* leaves out bool, a subclass of int.
UpdateAccepts_exact_type(v) ==
    v = None \/ v.type \in {"str", "int", "float", "dict", "list"}

\* The value test of update: None passes, as does an instance of
\* (str, int, float, dict, list).
UpdateAccepts(v) ==
    v = None \/ isinstance(v, {"str", "int", "float", "dict", "list"})

\* update merging a dict value into the dict already stored under the key.
RECURSIVE RequestConfig_update_merging(_, _)
RequestConfig_update_merging(parameters, kwargs) ==
    IF kwargs = <<>>
    THEN [parameters |-> parameters, raised |-> NoError, key |-> NoKey]
    ELSE LET k == kwargs[1][1]
             v == kwargs[1][2]
             old == IF k \in DOMAIN parameters THEN parameters[k] ELSE None
             new == IF old.type = "dict" /\ v.type = "dict"
                    THEN PyValue("dict", old.val \cup v.val) ELSE v
         IN  IF ~UpdateAccepts(v)
             THEN [parameters |-> parameters, raised |-> "ValueError", key |-> k]
             ELSE RequestConfig_update_merging((k :> new) @@ parameters,
                                               Tail(kwargs))

\* update writing each entry before it tests the value.
RECURSIVE RequestConfig_update_write_first(_, _)
RequestConfig_update_write_first(parameters, kwargs) ==
    IF kwargs = <<>>
    THEN [parameters |-> parameters, raised |-> NoError, key |-> NoKey]
    ELSE LET k == kwargs[1][1]
             v == kwargs[1][2]
             written == (k :> v) @@ parameters
         IN  IF ~UpdateAccepts(v)
             THEN [parameters |-> written, raised |-> "ValueError", key |-> k]
             ELSE RequestConfig_update_write_first(written, Tail(kwargs))

\* update without the value test: parameters.update(kwargs).
RECURSIVE RequestConfig_update_unvalidated(_, _)
RequestConfig_update_unvalidated(parameters, kwargs) ==
    IF kwargs = <<>>
    THEN [parameters |-> parameters, raised |-> NoError, key |-> NoKey]
    ELSE RequestConfig_update_unvalidated(
             (kwargs[1][1] :> kwargs[1][2]) @@ parameters, Tail(kwargs))

\* update testing every value before it writes any: all or nothing.
RequestConfig_update_atomic(parameters, kwargs) ==
    LET bad == {i \in DOMAIN kwargs : ~UpdateAccepts(kwargs[i][2])}
    IN  IF bad # {}
        THEN [parameters |-> parameters, raised |-> "ValueError",
              key |-> kwargs[CHOOSE i \in bad : \A j \in bad : i <= j][1]]
        ELSE RequestConfig_update_unvalidated(parameters, kwargs)

\* update(**kwargs): the entries in call order; the first refused value
\* raises ValueError naming its key, the entries before it stay written.
\* (A keyword argument's key is always a str: the key test never fails.)
RECURSIVE RequestConfig_update(_, _)
RequestConfig_update(parameters, kwargs) ==
    IF kwargs = <<>>
    THEN [parameters |-> parameters, raised |-> NoError, key |-> NoKey]
    ELSE LET k == kwargs[1][1]
             v == kwargs[1][2]
         IN  IF ~UpdateAccepts(v)
             THEN [parameters |-> parameters, raised |-> "ValueError", key |-> k]
             ELSE RequestConfig_update((k :> v) @@ parameters, Tail(kwargs))

\* clear() clearing a copy of the dict: parameters.copy().clear().
RequestConfig_clear_a_copy(parameters) == parameters

\* clear(): parameters.clear().
RequestConfig_clear(parameters) == EmptyDict

\* copy(): the parameters of the new RequestConfig, a dict of its own
\* filled by parameters.update(self.parameters).
RequestConfig_copy(parameters) ==
    [k \in DOMAIN parameters |-> parameters[k]]

----------------------------------------------------------------------------
(* The record of the most recent call.                                     *)

NoUrl == [host |-> "", path |-> <<>>]

\* The response attribute of a RequestBuilder no verb has assigned yet.
NoResponse == [status |-> 0]

\* op(args) called on `target` (0: a ConfigBuilder or the module; else a
\* RequestBuilder's index or a RequestConfig's reference); `builder` tells
\* the ConfigBuilders apart (0: the first, b: builders[b]).  What the call
\* raised (the key its message names, and what else the exception carries),
\* what it returned (a value, the reference of a new RequestConfig, the
\* response an ExpectBuilder wraps; for a verb, the response the transport
\* returned) and what it handed to the transport (how often, and the last
\* method, URL and options); for a clear(), the keys the store held when it
\* was called, and for a verb, the response its RequestBuilder held; for an
\* expectation, the values the AssertionError's message shows and how many
\* expectations the chained expression has evaluated, this one included.
\* `endpoint` is the endpoint a verb was called with.
Call(op, target, args) ==
    [op |-> op, target |-> target, builder |-> 0, args |-> args,
     raised |-> NoError, key |-> NoKey, carries |-> {}, held |-> {},
     replaced |-> NoResponse, message |-> <<>>, chained |-> 0,
     endpoint |-> [abs |-> FALSE, path |-> <<>>],
     returned |-> "self", result |-> None, ref |-> 0, response |-> NoResponse,
     sends |-> 0, method |-> "", url |-> NoUrl, options |-> EmptyDict]

----------------------------------------------------------------------------
(* RequestSpecs and the ConfigBuilder's setters.                           *)

SpecFields ==
    {"base_url", "query_params", "data", "headers", "cookies", "files",
     "auth", "stream", "proxies", "verify", "cert", "json_data"}

RequestSpecs_init == [f \in SpecFields |-> None]

\* The RequestConfig the ConfigBuilder creates and keeps.
BuilderConfig == 1

\* ConfigBuilder.__init__(base_url).
ConfigBuilder_init(url) ==
    /\ request_specs = [RequestSpecs_init EXCEPT !["base_url"] = url]
    /\ heap = <<RequestConfig_init>>

\* SetOption without the `is not None` test.
SetOption_unguarded(name, field, key, v) ==
    /\ request_specs' = [request_specs EXCEPT ![field] = v]
    /\ heap' = [heap EXCEPT ![BuilderConfig] =
                   RequestConfig_setitem(@, key, request_specs'[field])]
    /\ last' = Call(name, 0, <<<<key, v>>>>)
    /\ UNCHANGED <<dispatchers, builders>>

\* The body shared by the eleven option setters: with a value, the
\* RequestSpecs field is assigned and read back into the store under `key`.
SetOption(name, field, key, v) ==
    /\ IF v # None
       THEN /\ request_specs' = [request_specs EXCEPT ![field] = v]
            /\ heap' = [heap EXCEPT ![BuilderConfig] =
                           RequestConfig_setitem(@, key, request_specs'[field])]
       ELSE UNCHANGED <<request_specs, heap>>
    /\ last' = Call(name, 0, <<<<key, v>>>>)
    /\ UNCHANGED <<dispatchers, builders>>

\* base_url() reaching the RequestServices already made, as it would if
\* they read the base URL from the RequestSpecs at each request.
base_url_rebinding(v) ==
    /\ IF v # None
       THEN /\ request_specs' = [request_specs EXCEPT !["base_url"] = v]
            /\ dispatchers' = [d \in DOMAIN dispatchers |->
                                  [dispatchers[d] EXCEPT !.base_url = v]]
       ELSE UNCHANGED <<request_specs, dispatchers>>
    /\ last' = Call("base_url", 0, <<<<"base_url", v>>>>)
    /\ UNCHANGED <<heap, builders>>

ConfigBuilder_base_url(v) ==
    /\ IF v # None
       THEN request_specs' = [request_specs EXCEPT !["base_url"] = v]
       ELSE UNCHANGED request_specs
    /\ last' = Call("base_url", 0, <<<<"base_url", v>>>>)
    /\ UNCHANGED <<heap, dispatchers, builders>>

ConfigBuilder_params(v) == SetOption("params", "query_params", "params", v)
ConfigBuilder_data(v) == SetOption("data", "data", "data", v)
\* json_data writing the store under the field's name.
json_data_wrong_key(v) == SetOption("json_data", "json_data", "json_data", v)
ConfigBuilder_json_data(v) == SetOption("json_data", "json_data", "json", v)
ConfigBuilder_headers(v) == SetOption("headers", "headers", "headers", v)
ConfigBuilder_cookies(v) == SetOption("cookies", "cookies", "cookies", v)
ConfigBuilder_auth(v) == SetOption("auth", "auth", "auth", v)
ConfigBuilder_files(v) == SetOption("files", "files", "files", v)
ConfigBuilder_proxies(v) == SetOption("proxies", "proxies", "proxies", v)
ConfigBuilder_stream(v) == SetOption("stream", "stream", "stream", v)
ConfigBuilder_ssl_verify(v) == SetOption("ssl_verify", "verify", "verify", v)
ConfigBuilder_cert(v) == SetOption("cert", "cert", "cert", v)

----------------------------------------------------------------------------
(* URLs.  The strings of the model, parsed: a base URL is a host and the   *)
(* segments of its path ("http://x.test/api/" is x.test, <<"api", "">>), an *)
(* endpoint is a path, absolute ("/posts") or relative ("posts").          *)

ParseUrl(v) ==
    CASE v = UrlA -> [host |-> "x.test", path |-> <<"api", "">>]
      [] v = UrlB -> [host |-> "x.test", path |-> <<"v2">>]
      [] OTHER -> NoUrl

Endpoints ==
    {[abs |-> TRUE, path |-> <<"posts">>], [abs |-> FALSE, path |-> <<"posts">>]}

\* The join as a concatenation: f'{base}{endpoint}'.
urljoin_concatenating(base, endpoint) ==
    IF base = None
    THEN [host |-> "", path |-> endpoint.path]
    ELSE LET b == ParseUrl(base)
         IN  [host |-> b.host,
              path |-> IF endpoint.abs THEN b.path \o endpoint.path
                       ELSE SubSeq(b.path, 1, Len(b.path) - 1)
                            \o <<b.path[Len(b.path)] \o endpoint.path[1]>>]

\* urllib.parse.urljoin(base, url) for such a base and endpoint: a falsy base
\* gives the endpoint itself; an absolute path replaces the base's path; a
\* relative one replaces the base path's last segment.
urljoin(base, endpoint) ==
    IF base = None
    THEN [host |-> "", path |-> endpoint.path]
    ELSE LET b == ParseUrl(base)
         IN  IF endpoint.abs
             THEN [host |-> b.host, path |-> endpoint.path]
             ELSE [host |-> b.host,
                   path |-> SubSeq(b.path, 1, Len(b.path) - 1) \o endpoint.path]

----------------------------------------------------------------------------
(* JSON documents, as response.json() returns them: a number, a string, an *)
(* object (a dict: member name -> document) or an array (a list).          *)

JNum(n) == [t |-> "num", v |-> n]
JStr(s) == [t |-> "str", v |-> s]
JObj(members) == [t |-> "obj", v |-> members]
JArr(elements) == [t |-> "arr", v |-> elements]


----------------------------------------------------------------------------
(* The documents and responses explored.                                   *)

DocA1 == JObj([a |-> JNum(1)])
DocA2 == JObj([a |-> JNum(2)])
DocA1B2 == JObj([a |-> JNum(1), b |-> JNum(2)])
DocEmpty == JObj(<<>>)
DocPost == JObj([userId |-> JNum(1), id |-> JNum(1)])
DocPost2 == JObj([userId |-> JNum(1), id |-> JNum(2)])
DocPosts == JArr(<<DocPost, DocPost2>>)
DocUserId == JObj([userId |-> JNum(1)])
\* {"type": "object"} and {"type": "array"}.
SchemaObject == JObj([type |-> JStr("object")])
SchemaArray == JObj([type |-> JStr("array")])

ExpectBodies == {DocA1B2, DocA2, DocEmpty, DocPost, DocPosts, SchemaArray}

ExpectStatuses == {100, 200, 201, 301, 404, 500}

\* The bodies as the server writes them, each with the document it parses to.
Texts ==
    {<<"{\"a\": 1, \"b\": 2}", DocA1B2>>,
     <<"{\"a\": 2}", DocA2>>,
     <<"{}", DocEmpty>>,
     <<"{\"userId\": 1, \"id\": 1}", DocPost>>,
     <<"[{\"userId\": 1, \"id\": 1}, {\"userId\": 1, \"id\": 2}]", DocPosts>>,
     <<"{\"type\": \"array\"}", SchemaArray>>}

\* What response.json() does with a text that is no JSON document: it
\* raises JSONDecodeError, and there is no document.
NotJson == [t |-> "none", v |-> <<>>]

\* json.loads(text) and json.dumps(doc), for the texts above.
json_loads(text) ==
    IF \E p \in Texts : p[1] = text
    THEN (CHOOSE p \in Texts : p[1] = text)[2]
    ELSE NotJson

json_dumps(doc) == (CHOOSE p \in Texts : p[2] = doc)[1]

\* A requests.Response: status_code, headers (the names as the server sent
\* them), text, and what json() gives for the text.
TextResponse(status, headers, text) ==
    [status |-> status, headers |-> headers, text |-> text,
     json |-> json_loads(text)]

JsonHeaders == ("Content-Type" :> "application/json")
HtmlHeaders == ("content-type" :> "text/html")
NoHeaders == <<>>

\* A response with a status code and a JSON body.
JsonResponse(status, body) ==
    TextResponse(status, JsonHeaders, json_dumps(body))

\* The responses explored: every status with one body, every body with one
\* status.
ExpectResponses ==
    {JsonResponse(status, DocA1B2) : status \in ExpectStatuses}
    \cup {JsonResponse(200, body) : body \in ExpectBodies}

\* Responses whose body is no JSON document: an HTML page, a document cut
\* short, nothing at all.
TextHtml == "<html>Bad Gateway</html>"
TextCut == "{\"a\": 1, "
UnparsableResponses ==
    {TextResponse(200, HtmlHeaders, TextHtml),
     TextResponse(200, JsonHeaders, TextCut),
     TextResponse(500, NoHeaders, "")}

----------------------------------------------------------------------------
(* The transport (requests.Session) and RequestService.                    *)

Methods ==
    {"GET", "POST", "PUT", "DELETE", "PATCH", "HEAD", "OPTIONS", "TRACE",
     "CONNECT"}

\* What Session.request may do with a call: return a response with some
\* status code, or raise a RequestException; a URL without scheme and host
\* (no base URL) always raises (MissingSchema).
Response(status) == [status |-> status]
Responses == {Response(200), Response(404)}
Failure == [ok |-> FALSE, response |-> NoResponse]
Outcomes(url) ==
    {Failure} \cup
    (IF url.host = "" THEN {}
     ELSE {[ok |-> TRUE, response |-> r] :
              r \in Responses \cup ExpectResponses \cup UnparsableResponses})

RequestService__status_code_is_success(response) ==
    200 <= response.status /\ response.status <= 299

\* _handle_data(**kwargs): raises ValueError when both 'data' and 'json' are
\* given.  No method of RequestService calls it.
RequestService__handle_data(kwargs) ==
    IF \A key \in {"data", "json"} : key \in DOMAIN kwargs
    THEN [raised |-> "ValueError", kwargs |-> kwargs]
    ELSE [raised |-> NoError, kwargs |-> kwargs]

\* _request sending once more when the session raised.
RequestService__request_retrying(base_url, method, endpoint, kwargs, outcome) ==
    LET url == urljoin(base_url, endpoint)
    IN  [sends |-> IF outcome.ok THEN 1 ELSE 2,
         method |-> method, url |-> url, options |-> kwargs,
         raised |-> IF outcome.ok THEN NoError ELSE "Error",
         carries |-> IF outcome.ok THEN {} ELSE {"cause"},
         response |-> outcome.response]

\* _request raising for a response that is no success, as
\* response.raise_for_status() inside the try would.
request_raising_for_status(base_url, method, endpoint, kwargs, outcome) ==
    LET url == urljoin(base_url, endpoint)
        refused == outcome.ok /\
                   ~RequestService__status_code_is_success(outcome.response)
    IN  [sends |-> 1, method |-> method, url |-> url, options |-> kwargs,
         raised |-> IF outcome.ok /\ ~refused THEN NoError ELSE "Error",
         carries |-> IF outcome.ok /\ ~refused THEN {} ELSE {"cause"},
         response |-> outcome.response]

\* _request swallowing the session's exception: `except ...: return None`.
request_returning_none(base_url, method, endpoint, kwargs, outcome) ==
    LET url == urljoin(base_url, endpoint)
    IN  [sends |-> 1, method |-> method, url |-> url, options |-> kwargs,
         raised |-> NoError, carries |-> {}, response |-> outcome.response]

\* _request parsing the body inside the try, response.json(): the
\* JSONDecodeError of requests is a RequestException, and becomes an Error.
request_parsing_the_body(base_url, method, endpoint, kwargs, outcome) ==
    LET url == urljoin(base_url, endpoint)
        parsed == outcome.ok /\ outcome.response.json # NotJson
    IN  [sends |-> 1, method |-> method, url |-> url, options |-> kwargs,
         raised |-> IF parsed THEN NoError ELSE "Error",
         carries |-> IF parsed THEN {} ELSE {"cause"},
         response |-> outcome.response]

\* _request(method, endpoint, **kwargs): joins the URL, hands method, URL and
\* kwargs to the session once, and returns its response or raises Error for
\* its RequestException; the message of the Error is 'Request Error: '
\* and the text of that exception, the cause.
RequestService__request(base_url, method, endpoint, kwargs, outcome) ==
    LET url == urljoin(base_url, endpoint)
    IN  [sends |-> 1, method |-> method, url |-> url, options |-> kwargs,
         raised |-> IF outcome.ok THEN NoError ELSE "Error",
         carries |-> IF outcome.ok THEN {} ELSE {"cause"},
         response |-> outcome.response]

----------------------------------------------------------------------------
(* RequestBuilder.                                                         *)

\* when() handing the RequestBuilder a copy of the store:
\*     RequestBuilder(request, self.__request_config.copy())
when_copying_the_store ==
    /\ heap' = Append(heap, RequestConfig_copy(heap[BuilderConfig]))
    /\ dispatchers' = Append(dispatchers,
           [builder |-> 0,
            base_url |-> request_specs["base_url"], config |-> Len(heap) + 1,
            has_response |-> FALSE, response |-> NoResponse])
    /\ last' = [Call("when", 0, <<>>) EXCEPT !.returned = "RequestBuilder",
                                             !.ref = Len(dispatchers) + 1]
    /\ UNCHANGED <<request_specs, builders>>

\* ConfigBuilder.when(): a RequestService bound to the base URL the
\* RequestSpecs hold now, and a RequestBuilder that keeps the builder's own
\* RequestConfig (the reference, not a copy) and has no response attribute.
\* (`builder` notes which ConfigBuilder made it.)
ConfigBuilder_when ==
    /\ dispatchers' = Append(dispatchers,
           [builder |-> 0,
            base_url |-> request_specs["base_url"], config |-> BuilderConfig,
            has_response |-> FALSE, response |-> NoResponse])
    /\ last' = [Call("when", 0, <<>>) EXCEPT !.returned = "RequestBuilder",
                                             !.ref = Len(dispatchers) + 1]
    /\ UNCHANGED <<heap, request_specs, builders>>

\* The verb body merging the overrides into a copy of the store:
\*     parameters = {**self.__request_config.parameters, **kwargs}
VerbCall_merging_a_copy(d, method, endpoint, kwargs, outcome) ==
    LET cfg == dispatchers[d].config
        upd == RequestConfig_update(heap[cfg], kwargs)
        call == [Call(method, d, kwargs) EXCEPT !.endpoint = endpoint]
    IN  /\ UNCHANGED <<heap, request_specs, builders>>
        /\ IF upd.raised # NoError
           THEN /\ last' = [call EXCEPT !.raised = upd.raised, !.key = upd.key,
                                        !.returned = "nothing"]
                /\ UNCHANGED dispatchers
           ELSE LET req == RequestService__request(dispatchers[d].base_url,
                               method, endpoint, upd.parameters, outcome)
                IN  /\ outcome \in Outcomes(req.url)
                    /\ last' = [call EXCEPT
                                  !.raised = req.raised,
                                  !.carries = req.carries,
                                  !.returned = IF req.raised = NoError
                                               THEN "self" ELSE "nothing",
                                  !.response = req.response,
                                  !.replaced = dispatchers[d].response,
                                  !.sends = req.sends, !.method = req.method,
                                  !.url = req.url, !.options = req.options]
                    /\ dispatchers' =
                         IF req.raised = NoError
                         THEN [dispatchers EXCEPT ![d].has_response = TRUE,
                                                  ![d].response = req.response]
                         ELSE dispatchers

\* The verb body keeping a response it already has:
\*     if not hasattr(self, ...): self.__response = ...
VerbCall_keeping_first(d, method, endpoint, kwargs, outcome) ==
    LET cfg == dispatchers[d].config
        upd == RequestConfig_update(heap[cfg], kwargs)
        call == [Call(method, d, kwargs) EXCEPT !.endpoint = endpoint]
    IN  /\ heap' = [heap EXCEPT ![cfg] = upd.parameters]
        /\ UNCHANGED <<request_specs, builders>>
        /\ IF upd.raised # NoError
           THEN /\ last' = [call EXCEPT !.raised = upd.raised, !.key = upd.key,
                                        !.returned = "nothing"]
                /\ UNCHANGED dispatchers
           ELSE LET req == RequestService__request(dispatchers[d].base_url,
                               method, endpoint, upd.parameters, outcome)
                IN  /\ outcome \in Outcomes(req.url)
                    /\ last' = [call EXCEPT
                                  !.raised = req.raised,
                                  !.carries = req.carries,
                                  !.returned = IF req.raised = NoError
                                               THEN "self" ELSE "nothing",
                                  !.response = req.response,
                                  !.replaced = dispatchers[d].response,
                                  !.sends = req.sends, !.method = req.method,
                                  !.url = req.url, !.options = req.options]
                    /\ dispatchers' =
                         IF req.raised = NoError /\ ~dispatchers[d].has_response
                         THEN [dispatchers EXCEPT ![d].has_response = TRUE,
                                                  ![d].response = req.response]
                         ELSE dispatchers

\* The body of the nine verb methods:
\*     self.__request_config.update(**kwargs)
\*     self.__response = self.__request.<verb>(endpoint, **parameters)
\* update may raise after writing some entries; the request may raise after
\* update wrote them all; only a returned response is assigned.
VerbCall(d, method, endpoint, kwargs, outcome) ==
    LET cfg == dispatchers[d].config
        upd == RequestConfig_update(heap[cfg], kwargs)
        call == [Call(method, d, kwargs) EXCEPT !.endpoint = endpoint]
    IN  /\ heap' = [heap EXCEPT ![cfg] = upd.parameters]
        /\ UNCHANGED <<request_specs, builders>>
        /\ IF upd.raised # NoError
           THEN /\ last' = [call EXCEPT !.raised = upd.raised, !.key = upd.key,
                                        !.returned = "nothing"]
                /\ UNCHANGED dispatchers
           ELSE LET req == RequestService__request(dispatchers[d].base_url,
                               method, endpoint, upd.parameters, outcome)
                IN  /\ outcome \in Outcomes(req.url)
                    /\ last' = [call EXCEPT
                                  !.raised = req.raised,
                                  !.carries = req.carries,
                                  !.returned = IF req.raised = NoError
                                               THEN "self" ELSE "nothing",
                                  !.response = req.response,
                                  !.replaced = dispatchers[d].response,
                                  !.sends = req.sends, !.method = req.method,
                                  !.url = req.url, !.options = req.options]
                    /\ dispatchers' =
                         IF req.raised = NoError
                         THEN [dispatchers EXCEPT ![d].has_response = TRUE,
                                                  ![d].response = req.response]
                         ELSE dispatchers

RequestBuilder_get(d, e, kw, o) == VerbCall(d, "GET", e, kw, o)
RequestBuilder_post(d, e, kw, o) == VerbCall(d, "POST", e, kw, o)
RequestBuilder_put(d, e, kw, o) == VerbCall(d, "PUT", e, kw, o)
RequestBuilder_delete(d, e, kw, o) == VerbCall(d, "DELETE", e, kw, o)
RequestBuilder_patch(d, e, kw, o) == VerbCall(d, "PATCH", e, kw, o)
RequestBuilder_head(d, e, kw, o) == VerbCall(d, "HEAD", e, kw, o)
RequestBuilder_options(d, e, kw, o) == VerbCall(d, "OPTIONS", e, kw, o)
RequestBuilder_trace(d, e, kw, o) == VerbCall(d, "TRACE", e, kw, o)
RequestBuilder_connect(d, e, kw, o) == VerbCall(d, "CONNECT", e, kw, o)

\* close(): closes the session; nothing the chain keeps changes.
RequestBuilder_close(d) ==
    /\ last' = Call("close", d, <<>>)
    /\ UNCHANGED <<heap, request_specs, dispatchers, builders>>

\* clear() starting the RequestBuilder afresh: the store emptied and the
\* response dropped (del self.__response).
RequestBuilder_clear_resetting(d) ==
    /\ heap' = [heap EXCEPT ![dispatchers[d].config] = RequestConfig_clear(@)]
    /\ dispatchers' = [dispatchers EXCEPT ![d].has_response = FALSE,
                                          ![d].response = NoResponse]
    /\ last' = [Call("clear", d, <<>>) EXCEPT
                   !.held = DOMAIN heap[dispatchers[d].config]]
    /\ UNCHANGED <<request_specs, builders>>

\* clear(): self.__request_config.clear().
RequestBuilder_clear(d) ==
    /\ heap' = [heap EXCEPT ![dispatchers[d].config] = RequestConfig_clear(@)]
    /\ last' = [Call("clear", d, <<>>) EXCEPT
                   !.held = DOMAIN heap[dispatchers[d].config]]
    /\ UNCHANGED <<request_specs, dispatchers, builders>>

\* copy() keeping the copy: self.__request_config = self.__request_config.copy().
RequestBuilder_copy_rebinding(d) ==
    /\ heap' = Append(heap, RequestConfig_copy(heap[dispatchers[d].config]))
    /\ dispatchers' = [dispatchers EXCEPT ![d].config = Len(heap) + 1]
    /\ last' = Call("copy", d, <<>>)
    /\ UNCHANGED <<request_specs, builders>>

\* copy(): self.__request_config.copy() is evaluated and dropped.
RequestBuilder_copy(d) ==
    /\ last' = Call("copy", d, <<>>)
    /\ UNCHANGED <<heap, request_specs, dispatchers, builders>>

\* then() with the attribute defaulting to None: getattr(self, ..., None).
then_without_response(d) ==
    /\ last' = [Call("then", d, <<>>) EXCEPT
                   !.returned = "ExpectBuilder",
                   !.response = dispatchers[d].response]
    /\ UNCHANGED <<heap, request_specs, dispatchers, builders>>

\* then(): ExpectBuilder(self.__response); reading the attribute before any
\* verb assigned it raises AttributeError.
RequestBuilder_then(d) ==
    /\ last' = IF dispatchers[d].has_response
               THEN [Call("then", d, <<>>) EXCEPT
                        !.returned = "ExpectBuilder",
                        !.response = dispatchers[d].response]
               ELSE [Call("then", d, <<>>) EXCEPT
                        !.raised = "AttributeError", !.returned = "nothing"]
    /\ UNCHANGED <<heap, request_specs, dispatchers, builders>>

\* requests' Response.ok: raise_for_status() raises for the codes 400..599
\* and for no other.
Response_ok(response) ==
    ~(400 <= response.status /\ response.status <= 599)

----------------------------------------------------------------------------
(* assertpy's assertions, as Expect uses them: each returns or raises.     *)

Pass == [raised |-> NoError, message |-> <<>>]

\* AssertionError; its message shows the values given.
Mismatch(shown) == [raised |-> "AssertionError", message |-> shown]

TypeError == [raised |-> "TypeError", message |-> <<>>]

\* What else a line of Expect can raise before or instead of the assertion.
JSONDecodeError == [raised |-> "JSONDecodeError", message |-> <<>>]
KeyError == [raised |-> "KeyError", message |-> <<>>]
AttributeError == [raised |-> "AttributeError", message |-> <<>>]

\* assert_that(val).is_equal_to(other):
\* 'Expected <val> to be equal to <other>, but was not.'
is_equal_to(val, other) ==
    IF val = other THEN Pass ELSE Mismatch(<<val, other>>)

\* assert_that(val).is_true(): 'Expected <True>, but was not.'
is_true(val) == IF val THEN Pass ELSE Mismatch(<<>>)

\* Python's hash(): a dict or a list has none.
Hashable(doc) == doc.t \notin {"obj", "arr"}

\* assert_that(val).contains(item), one item: the test is `item not in val`.
\* In a dict that looks the item up as a key (hashing it), in a list it
\* compares the item with each element; a number is no container.
contains(val, item) ==
    CASE val.t = "obj" ->
            IF ~Hashable(item) THEN TypeError
            ELSE IF item.t = "str" /\ item.v \in DOMAIN val.v THEN Pass
            ELSE Mismatch(<<val, item>>)
      [] val.t = "arr" ->
            IF \E i \in DOMAIN val.v : val.v[i] = item THEN Pass
            ELSE Mismatch(<<val, item>>)
      [] OTHER -> TypeError

\* assert_that(val).contains_key(key): val must be dict-like (have keys()),
\* or TypeError; then contains(key).
contains_key(val, key) ==
    IF val.t # "obj" THEN TypeError ELSE contains(val, JStr(key))

\* assert_that(text).contains(value) for a str: `value not in text`.  The
\* pairs (value, text) of the strings explored where value occurs in text.
Occurrences ==
    {<<"html", TextHtml>>, <<"userId", json_dumps(DocPost)>>,
     <<"userId", json_dumps(DocPosts)>>, <<"", "">>}
    \cup {<<"", p[1]>> : p \in Texts} \cup {<<"", TextHtml>>, <<"", TextCut>>}

str_contains(text, value) ==
    IF <<value, text>> \in Occurrences THEN Pass
    ELSE Mismatch(<<text, value>>)

\* requests' CaseInsensitiveDict: names compare in lower case.
Lower(name) == IF name = "Content-Type" THEN "content-type" ELSE name

lower_items(headers) ==
    [k \in {Lower(n) : n \in DOMAIN headers} |->
        headers[CHOOSE n \in DOMAIN headers : Lower(n) = k]]

----------------------------------------------------------------------------
(* JSONPath (jsonpath.findall).  An expression is empty (the string '') or *)
(* the root `$` followed by selectors: a member name (.name) or the        *)
(* wildcard ([*]).                                                         *)

Name(k) == [sel |-> "name", name |-> k]
Wild == [sel |-> "wild", name |-> ""]
JsonPath(selectors) == [empty |-> FALSE, selectors |-> selectors]
EmptyExpr == [empty |-> TRUE, selectors |-> <<>>]

\* The elements of a set, in some fixed order.
RECURSIVE SeqOfSet(_)
SeqOfSet(S) ==
    IF S = {} THEN <<>>
    ELSE LET x == CHOOSE y \in S : TRUE IN <<x>> \o SeqOfSet(S \ {x})

\* The children of a node: the elements of an array, the member values of
\* an object.
Children(node) ==
    CASE node.t = "arr" -> node.v
      [] node.t = "obj" ->
            LET names == SeqOfSet(DOMAIN node.v)
            IN  [i \in 1..Len(names) |-> node.v[names[i]]]
      [] OTHER -> <<>>

\* The nodes one selector selects from one node.
Select(node, selector) ==
    IF selector.sel = "wild" THEN Children(node)
    ELSE IF node.t = "obj" /\ selector.name \in DOMAIN node.v
         THEN <<node.v[selector.name]>>
         ELSE <<>>

RECURSIVE SelectAll(_, _)
SelectAll(nodes, selector) ==
    IF nodes = <<>> THEN <<>>
    ELSE Select(nodes[1], selector) \o SelectAll(Tail(nodes), selector)

RECURSIVE SelectPath(_, _)
SelectPath(selectors, nodes) ==
    IF selectors = <<>> THEN nodes
    ELSE SelectPath(Tail(selectors), SelectAll(nodes, selectors[1]))

\* jsonpath.findall(path, data): the values the path matches, in order.
jsonpath_findall(path, data) == SelectPath(path.selectors, <<data>>)

----------------------------------------------------------------------------
(* Expect: the assertions on one response.                                 *)

\* status comparing the hundreds only.
Expect_status_same_class(response, status_code) ==
    IF status_code \div 100 = response.status \div 100 THEN Pass
    ELSE Mismatch(<<status_code, response.status>>)

Expect_status(response, status_code) ==
    is_equal_to(status_code, response.status)

Expect_status_ok(response) == is_true(Response_ok(response))

\* An equality of a dict with response.headers is the CaseInsensitiveDict's.
Expect_headers(response, headers) ==
    IF lower_items(headers) = lower_items(response.headers) THEN Pass
    ELSE Mismatch(<<headers, response.headers>>)

\* response.headers['Content-Type'] raises KeyError without such a header.
Expect_headers_content_type(response, content_type) ==
    LET items == lower_items(response.headers)
    IN  IF "content-type" \notin DOMAIN items THEN KeyError
        ELSE is_equal_to(content_type, items["content-type"])

Expect_body(response, text) == is_equal_to(text, response.text)

Expect_body_contains(response, value) == str_contains(response.text, value)

\* A line that evaluates self._response.json() first: json() raises for a
\* body that is no JSON document, and the assertion is not reached.
WithJson(response, assertion) ==
    IF response.json = NotJson THEN JSONDecodeError ELSE assertion

Expect_key(response, key) ==
    WithJson(response, contains_key(response.json, key))

\* assertpy has no contains_key_value: getting the attribute raises.
Expect_key_value(response, key, value) == WithJson(response, AttributeError)

Expect_json(response, json) ==
    WithJson(response, is_equal_to(json, response.json))

\* json_contains matching an object against the elements of a list as a
\* subset: some element has every member of json with an equal value.
Expect_json_contains_as_subset(response, json) ==
    WithJson(response,
        IF response.json.t = "arr" /\ json.t = "obj"
        THEN IF \E i \in DOMAIN response.json.v :
                   /\ response.json.v[i].t = "obj"
                   /\ \A k \in DOMAIN json.v :
                         /\ k \in DOMAIN response.json.v[i].v
                         /\ response.json.v[i].v[k] = json.v[k]
             THEN Pass
             ELSE Mismatch(<<response.json, json>>)
        ELSE contains(response.json, json))

Expect_json_contains(response, json) ==
    WithJson(response, contains(response.json, json))

\* _json_path_matches: no matches for an empty expression, without a look
\* at the body; else the body is parsed and searched.
Expect__json_path_matches(response, json_path_expr) ==
    IF json_path_expr.empty THEN [raised |-> NoError, matches |-> <<>>]
    ELSE IF response.json = NotJson
         THEN [raised |-> "JSONDecodeError", matches |-> <<>>]
         ELSE [raised |-> NoError,
               matches |-> jsonpath_findall(json_path_expr, response.json)]

\* The loop of json_path: each match in turn, the first unequal one raises.
RECURSIVE AssertEachMatch(_, _)
AssertEachMatch(matches, expected_value) ==
    IF matches = <<>> THEN Pass
    ELSE LET r == is_equal_to(matches[1], expected_value)
         IN  IF r.raised # NoError THEN r
             ELSE AssertEachMatch(Tail(matches), expected_value)

\* json_path asking for a match: assert_that(matches).is_not_empty() first.
Expect_json_path_needing_a_match(response, json_path_expr, expected_value) ==
    LET found == Expect__json_path_matches(response, json_path_expr)
    IN  IF found.raised # NoError THEN JSONDecodeError
        ELSE IF found.matches = <<>> THEN Mismatch(<<>>)
        ELSE AssertEachMatch(found.matches, expected_value)

Expect_json_path(response, json_path_expr, expected_value) ==
    LET found == Expect__json_path_matches(response, json_path_expr)
    IN  IF found.raised # NoError THEN JSONDecodeError
        ELSE AssertEachMatch(found.matches, expected_value)

Expect_json_schema(response, schema) ==
    WithJson(response, is_equal_to(schema, response.json))

----------------------------------------------------------------------------
(* ExpectBuilder.  A chained expression                                    *)
(*     ....then().expect_a(..).expect_b(..)                                *)
(* calls each method on what the call before it returned: `last` is that   *)
(* call, and an expectation can be called when it returned the             *)
(* ExpectBuilder.                                                          *)

\* ExpectBuilder(response), as then() has just returned it for the response
\* a GET of the first RequestBuilder captured.
ExpectBuilder_init(response) ==
    /\ ConfigBuilder_init(UrlA)
    /\ builders = <<>>
    /\ dispatchers = <<[builder |-> 0, base_url |-> UrlA,
                        config |-> BuilderConfig,
                        has_response |-> TRUE, response |-> response]>>
    /\ last = [Call("then", 1, <<>>) EXCEPT !.returned = "ExpectBuilder",
                                            !.response = response]

\* An expectation collecting the failure instead of letting it through:
\*     try: self.__expect.x(..)  except AssertionError as e: self.failed.append(e)
\*     return self
ExpectCall_collecting(name, args, outcome) ==
    /\ last.returned = "ExpectBuilder"
    /\ last' = [Call(name, last.target, args) EXCEPT
                   !.raised = outcome.raised,
                   !.message = outcome.message,
                   !.returned = "ExpectBuilder",
                   !.response = last.response,
                   !.chained = last.chained + 1]
    /\ UNCHANGED <<heap, request_specs, dispatchers, builders>>

\* An expectation that reads the body as a stream, which is then used up:
\* what the ExpectBuilder holds afterwards has no body left.
ExpectCall_consuming(name, args, outcome) ==
    /\ last.returned = "ExpectBuilder"
    /\ last' = [Call(name, last.target, args) EXCEPT
                   !.raised = outcome.raised,
                   !.message = outcome.message,
                   !.returned = IF outcome.raised = NoError
                                THEN "ExpectBuilder" ELSE "nothing",
                   !.response = TextResponse(last.response.status,
                                             last.response.headers, ""),
                   !.chained = last.chained + 1]
    /\ UNCHANGED <<heap, request_specs, dispatchers, builders>>

\* The body of each expect_* method:
\*     self.__expect.x(..)
\*     return self
\* What the assertion raises passes through, and then nothing is returned.
ExpectCall(name, args, outcome) ==
    /\ last.returned = "ExpectBuilder"
    /\ last' = [Call(name, last.target, args) EXCEPT
                   !.raised = outcome.raised,
                   !.message = outcome.message,
                   !.returned = IF outcome.raised = NoError
                                THEN "ExpectBuilder" ELSE "nothing",
                   !.response = last.response,
                   !.chained = last.chained + 1]
    /\ UNCHANGED <<heap, request_specs, dispatchers, builders>>

ExpectBuilder_expect_status(status_code) ==
    ExpectCall("expect_status", <<status_code>>,
               Expect_status(last.response, status_code))

ExpectBuilder_expect_headers(headers) ==
    ExpectCall("expect_headers", <<headers>>,
               Expect_headers(last.response, headers))

ExpectBuilder_expect_header_content_type(content_type) ==
    ExpectCall("expect_header_content_type", <<content_type>>,
               Expect_headers_content_type(last.response, content_type))

ExpectBuilder_expect_body(text) ==
    ExpectCall("expect_body", <<text>>, Expect_body(last.response, text))

ExpectBuilder_expect_body_contains(value) ==
    ExpectCall("expect_body_contains", <<value>>,
               Expect_body_contains(last.response, value))

ExpectBuilder_expect_key(expected_key) ==
    ExpectCall("expect_key", <<expected_key>>,
               Expect_key(last.response, expected_key))

ExpectBuilder_expect_key_value(key, expected_value) ==
    ExpectCall("expect_key_value", <<key, expected_value>>,
               Expect_key_value(last.response, key, expected_value))

ExpectBuilder_expect_json(json) ==
    ExpectCall("expect_json", <<json>>, Expect_json(last.response, json))

ExpectBuilder_expect_json_contains(json) ==
    ExpectCall("expect_json_contains", <<json>>,
               Expect_json_contains(last.response, json))

ExpectBuilder_expect_json_path(json_path_expr, expected_value) ==
    ExpectCall("expect_json_path", <<json_path_expr, expected_value>>,
               Expect_json_path(last.response, json_path_expr, expected_value))

ExpectBuilder_expect_json_schema(schema) ==
    ExpectCall("expect_json_schema", <<schema>>,
               Expect_json_schema(last.response, schema))

\* Expect.status_ok(), called on the Expect the ExpectBuilder wraps (no
\* expect_* method calls it); it returns None.
Expect_status_ok_call ==
    LET outcome == Expect_status_ok(last.response)
    IN  /\ last.returned = "ExpectBuilder"
        /\ last' = [Call("status_ok", last.target, <<>>) EXCEPT
                       !.raised = outcome.raised,
                       !.message = outcome.message,
                       !.returned = IF outcome.raised = NoError
                                    THEN "None" ELSE "nothing",
                       !.response = last.response,
                       !.chained = last.chained + 1]
        /\ UNCHANGED <<heap, request_specs, dispatchers, builders>>

----------------------------------------------------------------------------
(* A RequestConfig used directly: r is the reference of the object.        *)

Store_setitem(r, k, v) ==
    /\ heap' = [heap EXCEPT ![r] = RequestConfig_setitem(@, k, v)]
    /\ last' = Call("__setitem__", r, <<<<k, v>>>>)
    /\ UNCHANGED <<request_specs, dispatchers, builders>>

Store_getitem(r, k) ==
    LET got == RequestConfig_getitem(heap[r], k)
    IN  /\ last' = [Call("__getitem__", r, <<<<k, None>>>>) EXCEPT
                       !.raised = got.raised, !.key = got.key,
                       !.returned = IF got.raised = NoError
                                    THEN "value" ELSE "nothing",
                       !.result = got.value]
        /\ UNCHANGED <<heap, request_specs, dispatchers, builders>>

Store_update(r, kwargs) ==
    LET upd == RequestConfig_update(heap[r], kwargs)
    IN  /\ heap' = [heap EXCEPT ![r] = upd.parameters]
        /\ last' = [Call("RequestConfig.update", r, kwargs) EXCEPT
                       !.raised = upd.raised, !.key = upd.key,
                       !.returned = IF upd.raised = NoError
                                    THEN "None" ELSE "nothing"]
        /\ UNCHANGED <<request_specs, dispatchers, builders>>

Store_clear(r) ==
    /\ heap' = [heap EXCEPT ![r] = RequestConfig_clear(@)]
    /\ last' = [Call("RequestConfig.clear", r, <<>>) EXCEPT
                   !.returned = "None", !.held = DOMAIN heap[r]]
    /\ UNCHANGED <<request_specs, dispatchers, builders>>

\* copy() returning the object itself.
Store_copy_alias(r) ==
    /\ last' = [Call("RequestConfig.copy", r, <<>>) EXCEPT
                   !.returned = "RequestConfig", !.ref = r]
    /\ UNCHANGED <<heap, request_specs, dispatchers, builders>>

\* copy(): a new RequestConfig object, returned to the caller.
Store_copy(r) ==
    /\ heap' = Append(heap, RequestConfig_copy(heap[r]))
    /\ last' = [Call("RequestConfig.copy", r, <<>>) EXCEPT
                   !.returned = "RequestConfig", !.ref = Len(heap) + 1]
    /\ UNCHANGED <<request_specs, dispatchers, builders>>

\* The arguments each setter is explored with: None and values of the types
\* its signature declares.
SetterArgs(name) ==
    {None} \cup
    CASE name = "base_url" -> {UrlA, UrlB}
      [] name = "params" -> {DictA, DictB, Bytes1}
      [] name = "data" -> {DictA, StrA, Bytes1}
      [] name = "json_data" -> {DictA, DictB}
      [] name = "headers" -> {DictA, DictB}
      [] name = "cookies" -> {StrA, StrB}
      [] name = "auth" -> {Tuple1}
      [] name = "files" -> {DictA}
      [] name = "proxies" -> {DictB}
      [] name = "stream" -> {True, False}
      [] name = "ssl_verify" -> {True, False, StrA}
      [] name = "cert" -> {StrA, Tuple1}

----------------------------------------------------------------------------
(* Rip.given(base_url): a new ConfigBuilder, nothing called on it yet.     *)

Rip_given(url) ==
    /\ ConfigBuilder_init(url)
    /\ dispatchers = <<>>
    /\ builders = <<>>
    /\ last = Call("given", 0, <<<<"base_url", url>>>>)

Init == \E url \in {None, UrlA} : Rip_given(url)

----------------------------------------------------------------------------
(* The ConfigBuilders of later given() calls, and the same methods called  *)
(* on them: builders[b] is the object's RequestSpecs and the reference of  *)
(* its RequestConfig.                                                      *)

\* given() handing every ConfigBuilder the first one's RequestConfig, as a
\* class-level or default-argument RequestConfig would.
given_sharing_the_store(url) ==
    /\ builders' = Append(builders,
           [request_specs |-> [RequestSpecs_init EXCEPT !["base_url"] = url],
            config |-> BuilderConfig])
    /\ last' = [Call("given", 0, <<<<"base_url", url>>>>) EXCEPT
                   !.builder = Len(builders) + 1,
                   !.returned = "ConfigBuilder"]
    /\ UNCHANGED <<heap, request_specs, dispatchers>>

\* Rip.given(base_url), called again: ConfigBuilder.__init__ makes a new
\* RequestSpecs and a new RequestConfig.
Rip_given_again(url) ==
    /\ heap' = Append(heap, RequestConfig_init)
    /\ builders' = Append(builders,
           [request_specs |-> [RequestSpecs_init EXCEPT !["base_url"] = url],
            config |-> Len(heap) + 1])
    /\ last' = [Call("given", 0, <<<<"base_url", url>>>>) EXCEPT
                   !.builder = Len(builders) + 1,
                   !.returned = "ConfigBuilder"]
    /\ UNCHANGED <<request_specs, dispatchers>>

\* The option setters' body, self being builders[b].
SetOptionOn(b, name, field, key, v) ==
    /\ IF v # None
       THEN /\ builders' = [builders EXCEPT ![b].request_specs[field] = v]
            /\ heap' = [heap EXCEPT ![builders[b].config] =
                           RequestConfig_setitem(@, key,
                               builders'[b].request_specs[field])]
       ELSE UNCHANGED <<builders, heap>>
    /\ last' = [Call(name, 0, <<<<key, v>>>>) EXCEPT !.builder = b]
    /\ UNCHANGED <<request_specs, dispatchers>>

ConfigBuilder_base_url_on(b, v) ==
    /\ IF v # None
       THEN builders' = [builders EXCEPT ![b].request_specs["base_url"] = v]
       ELSE UNCHANGED builders
    /\ last' = [Call("base_url", 0, <<<<"base_url", v>>>>) EXCEPT !.builder = b]
    /\ UNCHANGED <<heap, request_specs, dispatchers>>

ConfigBuilder_params_on(b, v) ==
    SetOptionOn(b, "params", "query_params", "params", v)

ConfigBuilder_when_on(b) ==
    /\ dispatchers' = Append(dispatchers,
           [builder |-> b,
            base_url |-> builders[b].request_specs["base_url"],
            config |-> builders[b].config,
            has_response |-> FALSE, response |-> NoResponse])
    /\ last' = [Call("when", 0, <<>>) EXCEPT !.builder = b,
                                             !.returned = "RequestBuilder",
                                             !.ref = Len(dispatchers) + 1]
    /\ UNCHANGED <<heap, request_specs, builders>>

----------------------------------------------------------------------------
(* SpecBuilder: the twelve setters of one ConfigBuilder, in any order.     *)

FieldsSet == {f \in SpecFields : request_specs[f] # None}

\* A setter may set a field while fewer than MaxFieldsSet fields are set,
\* and may always be called on a field that is set or with None.
MaySet(field, v) ==
    v = None \/ field \in FieldsSet \/ Cardinality(FieldsSet) < MaxFieldsSet

NextBuilder ==
    \/ \E v \in SetterArgs("base_url") :
          MaySet("base_url", v) /\ ConfigBuilder_base_url(v)
    \/ \E v \in SetterArgs("params") :
          MaySet("query_params", v) /\ ConfigBuilder_params(v)
    \/ \E v \in SetterArgs("data") :
          MaySet("data", v) /\ ConfigBuilder_data(v)
    \/ \E v \in SetterArgs("json_data") :
          MaySet("json_data", v) /\ ConfigBuilder_json_data(v)
    \/ \E v \in SetterArgs("headers") :
          MaySet("headers", v) /\ ConfigBuilder_headers(v)
    \/ \E v \in SetterArgs("cookies") :
          MaySet("cookies", v) /\ ConfigBuilder_cookies(v)
    \/ \E v \in SetterArgs("auth") :
          MaySet("auth", v) /\ ConfigBuilder_auth(v)
    \/ \E v \in SetterArgs("files") :
          MaySet("files", v) /\ ConfigBuilder_files(v)
    \/ \E v \in SetterArgs("proxies") :
          MaySet("proxies", v) /\ ConfigBuilder_proxies(v)
    \/ \E v \in SetterArgs("stream") :
          MaySet("stream", v) /\ ConfigBuilder_stream(v)
    \/ \E v \in SetterArgs("ssl_verify") :
          MaySet("verify", v) /\ ConfigBuilder_ssl_verify(v)
    \/ \E v \in SetterArgs("cert") :
          MaySet("cert", v) /\ ConfigBuilder_cert(v)

SpecBuilder == Init /\ [][NextBuilder]_vars

----------------------------------------------------------------------------
(* Spec: one chain.  The ConfigBuilder's setters, when(), and the methods  *)
(* of the RequestBuilders it hands out, in any order; of the nine verbs,   *)
(* get and post (SpecVerbs explores all nine).                             *)

\* The per-call overrides the verbs are explored with: none, an override of
\* a key a setter may have written, a body given twice over, a refused value
\* after an accepted entry.
Overrides ==
    {<<>>,
     <<<<"params", DictB>>>>,
     <<<<"data", StrA>>, <<"json", DictA>>>>,
     <<<<"params", DictB>>, <<"auth", Tuple1>>>>}

ChainArgs(name) ==
    {None} \cup
    CASE name = "base_url" -> {UrlB}
      [] name = "params" -> {DictA}
      [] name = "data" -> {StrA}
      [] name = "json_data" -> {DictA}

ChainEndpoints == {[abs |-> TRUE, path |-> <<"posts">>]}

Dispatchers == 1..Len(dispatchers)

AllOutcomes == {Failure} \cup {[ok |-> TRUE, response |-> r] : r \in Responses}

Next ==
    \/ \E v \in ChainArgs("base_url") : ConfigBuilder_base_url(v)
    \/ \E v \in ChainArgs("params") : ConfigBuilder_params(v)
    \/ \E v \in ChainArgs("data") : ConfigBuilder_data(v)
    \/ \E v \in ChainArgs("json_data") : ConfigBuilder_json_data(v)
    \/ Len(dispatchers) < MaxDispatchers /\ ConfigBuilder_when
    \/ \E d \in Dispatchers, e \in ChainEndpoints, kw \in Overrides, o \in AllOutcomes :
          RequestBuilder_get(d, e, kw, o)
    \/ \E d \in Dispatchers, e \in ChainEndpoints, kw \in Overrides, o \in AllOutcomes :
          RequestBuilder_post(d, e, kw, o)
    \/ \E d \in Dispatchers : RequestBuilder_close(d)
    \/ \E d \in Dispatchers : RequestBuilder_clear(d)
    \/ \E d \in Dispatchers : RequestBuilder_copy(d)
    \/ \E d \in Dispatchers : RequestBuilder_then(d)

Spec == Init /\ [][Next]_vars

----------------------------------------------------------------------------
(* SpecVerbs: the nine verbs of a RequestBuilder, each with and without an *)
(* override of a key a setter wrote.                                       *)

VerbOverrides ==
    {<<>>, <<<<"params", DictB>>>>, <<<<"headers", DictB>>>>,
     <<<<"headers", DictA>>, <<"params", DictB>>>>}

NextVerbs ==
    \/ ConfigBuilder_params(DictA)
    \/ ConfigBuilder_headers(DictA)
    \/ Len(dispatchers) < MaxDispatchers /\ ConfigBuilder_when
    \/ \E d \in Dispatchers, e \in ChainEndpoints, kw \in VerbOverrides, o \in AllOutcomes :
          RequestBuilder_get(d, e, kw, o)
    \/ \E d \in Dispatchers, e \in ChainEndpoints, kw \in VerbOverrides, o \in AllOutcomes :
          RequestBuilder_post(d, e, kw, o)
    \/ \E d \in Dispatchers, e \in ChainEndpoints, kw \in VerbOverrides, o \in AllOutcomes :
          RequestBuilder_put(d, e, kw, o)
    \/ \E d \in Dispatchers, e \in ChainEndpoints, kw \in VerbOverrides, o \in AllOutcomes :
          RequestBuilder_delete(d, e, kw, o)
    \/ \E d \in Dispatchers, e \in ChainEndpoints, kw \in VerbOverrides, o \in AllOutcomes :
          RequestBuilder_patch(d, e, kw, o)
    \/ \E d \in Dispatchers, e \in ChainEndpoints, kw \in VerbOverrides, o \in AllOutcomes :
          RequestBuilder_head(d, e, kw, o)
    \/ \E d \in Dispatchers, e \in ChainEndpoints, kw \in VerbOverrides, o \in AllOutcomes :
          RequestBuilder_options(d, e, kw, o)
    \/ \E d \in Dispatchers, e \in ChainEndpoints, kw \in VerbOverrides, o \in AllOutcomes :
          RequestBuilder_trace(d, e, kw, o)
    \/ \E d \in Dispatchers, e \in ChainEndpoints, kw \in VerbOverrides, o \in AllOutcomes :
          RequestBuilder_connect(d, e, kw, o)

SpecVerbs == Init /\ [][NextVerbs]_vars

----------------------------------------------------------------------------
(* SpecUrl: a RequestBuilder bound to no base URL, to one that ends in a   *)
(* slash or to one that does not, and GET and POST with an absolute and    *)
(* with a relative endpoint; base_url() and params() before and after      *)
(* when().                                                                 *)

NextUrl ==
    \/ \E v \in {UrlA, UrlB} : ConfigBuilder_base_url(v)
    \/ ConfigBuilder_params(DictA)
    \/ Len(dispatchers) < MaxDispatchers /\ ConfigBuilder_when
    \/ \E d \in Dispatchers, e \in Endpoints, o \in AllOutcomes :
          RequestBuilder_get(d, e, <<>>, o)
    \/ \E d \in Dispatchers, e \in Endpoints, o \in AllOutcomes :
          RequestBuilder_post(d, e, <<>>, o)

SpecUrl == Init /\ [][NextUrl]_vars

----------------------------------------------------------------------------
(* SpecChains: the chains of two given() calls, their setters, when(),     *)
(* verbs, clear() and then() interleaved in any order.                     *)

Builders == 1..Len(builders)

\* The RequestBuilders a ConfigBuilder has handed out.
DispatchersOf(b) == {d \in Dispatchers : dispatchers[d].builder = b}

ChainOverrides == {<<>>, <<<<"params", DictB>>>>}

ChainOutcomes == {Failure, [ok |-> TRUE, response |-> Response(200)]}

NextChains ==
    \/ \E url \in {UrlB} : builders = <<>> /\ Rip_given_again(url)
    \/ ConfigBuilder_params(DictA)
    \/ \E b \in Builders : ConfigBuilder_base_url_on(b, UrlA)
    \/ \E b \in Builders : ConfigBuilder_params_on(b, DictA)
    \/ Len(dispatchers) <= MaxDispatchers /\ ConfigBuilder_when
    \/ \E b \in Builders :
          Len(dispatchers) <= MaxDispatchers /\ ConfigBuilder_when_on(b)
    \/ \E d \in Dispatchers, e \in ChainEndpoints, kw \in ChainOverrides,
          o \in ChainOutcomes : RequestBuilder_get(d, e, kw, o)
    \/ \E d \in Dispatchers : RequestBuilder_clear(d)
    \/ \E d \in Dispatchers : RequestBuilder_then(d)

SpecChains == Init /\ [][NextChains]_vars

----------------------------------------------------------------------------
(* SpecExpect: an ExpectBuilder over one captured response, and the        *)
(* expressions chained on it; then() starts the next expression.           *)

\* $.userId and $[*].userId
PathUserId == JsonPath(<<Name("userId")>>)
PathEachUserId == JsonPath(<<Wild, Name("userId")>>)

InitExpect == \E response \in ExpectResponses : ExpectBuilder_init(response)

MayChain == last.chained < MaxChained

NextExpect ==
    \/ \E status_code \in {200, 201, 404} :
          MayChain /\ ExpectBuilder_expect_status(status_code)
    \/ \E json \in {DocA1B2, DocPosts} :
          MayChain /\ ExpectBuilder_expect_json(json)
    \/ \E json \in {DocA1, DocPost, JStr("a")} :
          MayChain /\ ExpectBuilder_expect_json_contains(json)
    \/ \E json_path_expr \in {EmptyExpr, PathUserId, PathEachUserId},
          expected_value \in {JNum(1), JStr("userId")} :
          MayChain /\ ExpectBuilder_expect_json_path(json_path_expr,
                                                     expected_value)
    \/ \E schema \in {SchemaObject, SchemaArray} :
          MayChain /\ ExpectBuilder_expect_json_schema(schema)
    \/ MayChain /\ Expect_status_ok_call
    \/ RequestBuilder_then(1)

SpecExpect == InitExpect /\ [][NextExpect]_vars

----------------------------------------------------------------------------
(* SpecBody: a RequestBuilder whose GETs capture responses of every kind,  *)
(* bodies that are no JSON among them, and every expectation on them.      *)

BodyResponses == ExpectResponses \cup UnparsableResponses

InitBody == \E response \in BodyResponses : ExpectBuilder_init(response)

NextBody ==
    \/ \E response \in BodyResponses :
          RequestBuilder_get(1, [abs |-> TRUE, path |-> <<"posts">>], <<>>,
                             [ok |-> TRUE, response |-> response])
    \/ RequestBuilder_then(1)
    \/ \E status_code \in {200, 500} :
          MayChain /\ ExpectBuilder_expect_status(status_code)
    \/ MayChain /\ Expect_status_ok_call
    \/ \E headers \in {JsonHeaders, ("content-type" :> "application/json")} :
          MayChain /\ ExpectBuilder_expect_headers(headers)
    \/ \E content_type \in {"application/json", "text/html"} :
          MayChain /\ ExpectBuilder_expect_header_content_type(content_type)
    \/ \E text \in {TextHtml, json_dumps(DocPost)} :
          MayChain /\ ExpectBuilder_expect_body(text)
    \/ \E value \in {"html", "userId"} :
          MayChain /\ ExpectBuilder_expect_body_contains(value)
    \/ \E expected_key \in {"a", "userId"} :
          MayChain /\ ExpectBuilder_expect_key(expected_key)
    \/ \E key \in {"a"}, expected_value \in {JNum(1)} :
          MayChain /\ ExpectBuilder_expect_key_value(key, expected_value)
    \/ \E json \in {DocA1B2, DocPosts} :
          MayChain /\ ExpectBuilder_expect_json(json)
    \/ \E json \in {DocPost, DocPost2, DocUserId, DocPosts, JStr("a")} :
          MayChain /\ ExpectBuilder_expect_json_contains(json)
    \/ \E json_path_expr \in {EmptyExpr, PathUserId, PathEachUserId},
          expected_value \in {JNum(1)} :
          MayChain /\ ExpectBuilder_expect_json_path(json_path_expr,
                                                     expected_value)
    \/ \E schema \in {SchemaObject, SchemaArray} :
          MayChain /\ ExpectBuilder_expect_json_schema(schema)

SpecBody == InitBody /\ [][NextBody]_vars

----------------------------------------------------------------------------
(* SpecStore: one RequestConfig used directly, with values of every type.  *)

Refs == 1..Len(heap)

StoreKeys == {"params", "auth"}

\* The **kwargs update is explored with: nothing, one entry of any value,
\* and two entries of which either, both or none is refused.
StoreKwargs ==
    {<<>>}
    \cup {<<<<k, v>>>> : k \in StoreKeys, v \in Values \cup {None}}
    \cup {<<<<kk[1], v1>>, <<kk[2], v2>>>> :
            kk \in {<<"params", "auth">>, <<"auth", "params">>},
            v1 \in {StrA, Bytes1}, v2 \in {DictA, None, Tuple1}}

NextStore ==
    \/ \E k \in StoreKeys, v \in Values \cup {None} :
          Store_setitem(BuilderConfig, k, v)
    \/ \E k \in StoreKeys : Store_getitem(BuilderConfig, k)
    \/ \E kw \in StoreKwargs : Store_update(BuilderConfig, kw)
    \/ Store_clear(BuilderConfig)

SpecStore == Init /\ [][NextStore]_vars

----------------------------------------------------------------------------
(* SpecCopy: a RequestConfig and the copies copy() returns, each read and  *)
(* written directly.                                                       *)

CopyKeys == {"params", "data"}
CopyValues == {StrA, DictA}

CopyKwargs ==
    {<<<<k, v>>>> : k \in CopyKeys, v \in CopyValues}
    \cup {<<<<"params", DictB>>, <<"data", Tuple1>>>>}

NextCopy ==
    \/ \E r \in Refs, k \in CopyKeys, v \in CopyValues : Store_setitem(r, k, v)
    \/ \E r \in Refs, k \in CopyKeys : Store_getitem(r, k)
    \/ \E r \in Refs, kw \in CopyKwargs : Store_update(r, kw)
    \/ \E r \in Refs : Store_clear(r)
    \/ \E r \in Refs : Len(heap) < MaxStores /\ Store_copy(r)

SpecCopy == Init /\ [][NextCopy]_vars

----------------------------------------------------------------------------
(* The properties checked.                                                 *)

SetterNames ==
    {"base_url", "params", "data", "json_data", "headers", "cookies", "auth",
     "files", "proxies", "stream", "ssl_verify", "cert"}

\* The RequestSpecs field each setter is to assign.
FieldOfSetter(name) ==
    CASE name = "params" -> "query_params"
      [] name = "ssl_verify" -> "verify"
      [] OTHER -> name

\* The transmission key each option setter is to write.
KeyOfSetter(name) ==
    CASE name = "json_data" -> "json"
      [] name = "ssl_verify" -> "verify"
      [] OTHER -> name

\* The types the configuration store is said to accept: string, number,
\* boolean, mapping, sequence (a list) and null.
AllowedTypes == {"str", "int", "float", "bool", "dict", "list", "NoneType"}

LastArg == last.args[1][2]

\* The store a RequestBuilder's call works on.
ConfigOf(d) == dispatchers[d].config

\* C1: a verb call that reaches the transport hands it, for every per-call
\* override k=v2, exactly v2 under k, whatever a setter stored under k
\* before: the stored value is replaced as a whole, not merged.
C1_OverrideWins ==
    (last.op \in Methods /\ last.sends > 0) =>
        \A i \in 1..Len(last.args) :
            /\ last.args[i][1] \in DOMAIN last.options
            /\ last.options[last.args[i][1]] = last.args[i][2]

\* A verb sent params=DictB although the params setter had stored DictA.
C1_Witness ==
    /\ last.op \in Methods
    /\ last.sends = 1
    /\ request_specs["query_params"] = DictA
    /\ \E i \in 1..Len(last.args) : last.args[i] = <<"params", DictB>>
    /\ last.options["params"] = DictB

\* C2: a setter called with None changes no RequestSpecs field and no entry
\* of any configuration store.
C2_NoneSetterIsNoOp ==
    [][(last'.op \in SetterNames /\ last'.args[1][2] = None) =>
          (request_specs' = request_specs /\ heap' = heap)]_vars

\* params(None) was called on a builder whose params are set: the field and
\* the store entry are still there.
C2_Witness ==
    /\ last.op = "params"
    /\ LastArg = None
    /\ request_specs["query_params"] = DictA
    /\ "params" \in DOMAIN heap[BuilderConfig]
    /\ heap[BuilderConfig]["params"] = DictA

\* C3: an option setter called with a value v leaves v in its RequestSpecs
\* field and under its transmission key in the builder's store, and leaves
\* every other key of the store as it was.
C3_SetterMirrorsValue ==
    [][(last'.op \in SetterNames \ {"base_url"} /\ last'.args[1][2] # None) =>
          LET v == last'.args[1][2]
              key == KeyOfSetter(last'.op)
              old == heap[BuilderConfig]
              new == heap'[BuilderConfig]
          IN  /\ request_specs'[FieldOfSetter(last'.op)] = v
              /\ key \in DOMAIN new
              /\ new[key] = v
              /\ DOMAIN new = DOMAIN old \cup {key}
              /\ \A k \in DOMAIN old \ {key} : new[k] = old[k]]_vars

\* json_data(DictB) was called while the store held params: 'json' holds
\* DictB and params is untouched.
C3_Witness ==
    /\ last.op = "json_data"
    /\ LastArg = DictB
    /\ request_specs["json_data"] = DictB
    /\ DOMAIN heap[BuilderConfig] = {"json", "params"}
    /\ heap[BuilderConfig]["json"] = DictB

\* C4: then() on a RequestBuilder that has captured no response raises
\* (Python's AttributeError for the unassigned attribute) and returns no
\* ExpectBuilder.
C4_ThenBeforeVerbFails ==
    (last.op = "then" /\ ~dispatchers[last.target].has_response) =>
        (last.raised = "AttributeError" /\ last.returned # "ExpectBuilder")

\* then() was called before any response was captured, and raised.
C4_Witness ==
    /\ last.op = "then"
    /\ ~dispatchers[last.target].has_response
    /\ last.raised = "AttributeError"

\* C5: a verb call whose merged options hold both 'data' and 'json' raises
\* and hands nothing to the transport.  (Stated for the calls in which the
\* transport itself does not fail, so that the only exception in question
\* is the one for the contradictory body.)
C5_DataAndJsonRejected ==
    (/\ last.op \in Methods
     /\ {"data", "json"} \subseteq DOMAIN heap[ConfigOf(last.target)]
     /\ last.raised # "Error") =>
        (last.raised # NoError /\ last.sends = 0)

\* C6: update(k=v) with v of an allowed type does not raise, and reading
\* store[k] afterwards returns v.
C6_UpdateThenRead ==
    (/\ last.op = "RequestConfig.update"
     /\ \A i \in 1..Len(last.args) : last.args[i][2].type \in AllowedTypes) =>
        /\ last.raised = NoError
        /\ \A i \in 1..Len(last.args) :
              LET read == RequestConfig_getitem(heap[last.target], last.args[i][1])
              IN  read.raised = NoError /\ read.value = last.args[i][2]

\* update(params=True) returned: a bool is a number, and is stored.
C6_Witness ==
    /\ last.op = "RequestConfig.update"
    /\ last.args = <<<<"params", True>>>>
    /\ last.raised = NoError
    /\ heap[last.target]["params"] = True

\* The first entry of a **kwargs whose value is of no allowed type (0: none).
FirstRefused(kwargs) ==
    LET bad == {i \in 1..Len(kwargs) : kwargs[i][2].type \notin AllowedTypes}
    IN  IF bad = {} THEN 0 ELSE CHOOSE i \in bad : \A j \in bad : i <= j

C8_StoreHoldsAllowedTypes ==
    \A r \in Refs : \A k \in DOMAIN heap[r] : heap[r][k].type \in AllowedTypes

\* C9: after clear() the store has no entry, and a read of any key finds
\* nothing (KeyError).
C9_ClearEmpties ==
    last.op = "RequestConfig.clear" =>
        /\ DOMAIN heap[last.target] = {}
        /\ \A k \in StoreKeys \cup last.held :
              RequestConfig_getitem(heap[last.target], k).raised = "KeyError"

\* clear() was called on a store holding both keys, and left none.
C9_Witness ==
    /\ last.op = "RequestConfig.clear"
    /\ last.held = StoreKeys
    /\ heap[last.target] = EmptyDict

\* C10: copy() returns a RequestConfig of its own holding the entries the
\* original holds at the call and changes no existing store; a set, update
\* or clear on one store changes no other store.
C10_CopyIsIndependent ==
    [][/\ last'.op = "RequestConfig.copy" =>
            /\ last'.ref \notin 1..Len(heap)
            /\ last'.ref \in 1..Len(heap')
            /\ heap'[last'.ref] = heap[last'.target]
            /\ \A r \in 1..Len(heap) : heap'[r] = heap[r]
       /\ last'.op \in {"__setitem__", "RequestConfig.update",
                        "RequestConfig.clear"} =>
            /\ Len(heap') = Len(heap)
            /\ \A r \in (1..Len(heap)) \ {last'.target} : heap'[r] = heap[r]]_vars

\* The copy (store 2) was cleared while the original still holds entries.
C10_Witness ==
    /\ Len(heap) = 2
    /\ last.op = "RequestConfig.clear"
    /\ last.target = 2
    /\ last.held # {}
    /\ heap[2] = EmptyDict
    /\ heap[1] # EmptyDict

\* The chain a call was made on: that of the ConfigBuilder for a setter,
\* given() or when(), that of the RequestBuilder's maker otherwise.
ChainOfCall(call, made) ==
    IF call.op \in SetterNames \cup {"given", "when"}
    THEN call.builder
    ELSE made[call.target].builder

\* What a chain keeps: its RequestSpecs, the entries of its configuration
\* store, and the response each of its RequestBuilders has captured.
ChainState(b) ==
    [request_specs |-> IF b = 0 THEN request_specs
                       ELSE builders[b].request_specs,
     store |-> heap[IF b = 0 THEN BuilderConfig ELSE builders[b].config],
     captured |-> [d \in DispatchersOf(b) |->
                      <<dispatchers[d].has_response, dispatchers[d].response>>]]

\* C11: a call on one chain (a setter, when(), a verb, clear(), then(), or
\* the given() that creates the chain) leaves the RequestSpecs, the store
\* and the captured responses of every other chain as they were.
C11_ChainsShareNothing ==
    [][\A b \in 0..Len(builders) :
          b # ChainOfCall(last', dispatchers') => ChainState(b)' = ChainState(b)]_vars

\* Two chains hold different things: the first has params in its store and
\* has captured a response, the second was just cleared and has captured
\* none.
C11_Witness ==
    /\ Len(builders) = 1
    /\ last.op = "clear"
    /\ dispatchers[last.target].builder = 1
    /\ last.held # {}
    /\ ChainState(1).store = EmptyDict
    /\ "params" \in DOMAIN ChainState(0).store
    /\ \E d \in DispatchersOf(0) : dispatchers[d].has_response
    /\ \A d \in DispatchersOf(1) : ~dispatchers[d].has_response

\* C12: a verb call that succeeds leaves its RequestBuilder holding the
\* response that call returned, whatever it held before; no other call
\* changes a held response; and then() returns an ExpectBuilder over the
\* response the RequestBuilder holds, so over that of the most recent
\* successful verb call.
C12_LatestResponseIsEvaluated ==
    [][/\ (last'.op \in Methods /\ last'.raised = NoError) =>
            /\ dispatchers'[last'.target].has_response
            /\ dispatchers'[last'.target].response = last'.response
       /\ (last'.op \notin Methods /\ last'.op # "when") =>
            \A d \in Dispatchers :
                dispatchers'[d].response = dispatchers[d].response
       /\ (last'.op = "then" /\ dispatchers[last'.target].has_response) =>
            /\ last'.returned = "ExpectBuilder"
            /\ last'.response = dispatchers[last'.target].response]_vars

\* A verb call succeeded with a 404 on a RequestBuilder that held the 200
\* of an earlier call: it holds the 404, which then() is to wrap.
C12_Witness ==
    /\ last.op \in Methods
    /\ last.raised = NoError
    /\ last.replaced = Response(200)
    /\ last.response = Response(404)
    /\ dispatchers[last.target].has_response
    /\ dispatchers[last.target].response = Response(404)

\* C13: a verb call to which the transport returned a response, of whatever
\* status code, raises nothing: the response is captured and the
\* RequestBuilder is returned, and a then() that follows returns an
\* ExpectBuilder without raising.
C13_AnyStatusIsCaptured ==
    [][/\ (last'.op \in Methods /\ last'.response # NoResponse) =>
            /\ last'.raised = NoError
            /\ last'.returned = "self"
            /\ dispatchers'[last'.target].has_response
            /\ dispatchers'[last'.target].response = last'.response
       /\ (/\ last.op \in Methods /\ last.response # NoResponse
           /\ last'.op = "then" /\ last'.target = last.target) =>
            /\ last'.raised = NoError
            /\ last'.returned = "ExpectBuilder"]_vars

\* A verb call got a 404 from the transport, raised nothing and captured it.
C13_Witness ==
    /\ last.op \in Methods
    /\ last.response = Response(404)
    /\ last.raised = NoError
    /\ last.returned = "self"
    /\ dispatchers[last.target].response = Response(404)

\* A verb call whose one send the transport failed: the request was handed
\* to the transport and no response came back.
TransportFailed == last.op \in Methods /\ last.sends > 0 /\ last.response = NoResponse

\* C14, as the specification states it: a verb call whose transport send
\* fails makes exactly one send attempt and raises an error that carries
\* the HTTP method, the resolved URL and the underlying cause.
C14_ErrorCarriesMethodUrlCause ==
    TransportFailed =>
        /\ last.sends = 1
        /\ last.raised = "Error"
        /\ {"method", "url", "cause"} \subseteq last.carries

\* C14, amended: a verb call whose transport send fails makes exactly one
\* send attempt, captures nothing and raises Error, whose message carries
\* the text of the underlying cause and nothing else: neither the method
\* nor the resolved URL is put into it.
C14_OneSendThenError ==
    TransportFailed =>
        /\ last.sends = 1
        /\ last.raised = "Error"
        /\ last.returned = "nothing"
        /\ last.carries = {"cause"}

\* A POST to a joined URL failed in the transport after one send.
C14_Witness ==
    /\ TransportFailed
    /\ last.op = "POST"
    /\ last.url.host = "x.test"
    /\ last.sends = 1
    /\ last.raised = "Error"

\* C15: expect_status(c) on a response of status s returns (the
\* ExpectBuilder) exactly when c = s, and otherwise raises an AssertionError
\* whose message shows both the expected code c and the actual code s.
C15_StatusPassesIffEqual ==
    last.op = "expect_status" =>
        LET c == last.args[1]
            s == last.response.status
        IN  /\ (last.raised = NoError) <=> (c = s)
            /\ c = s => last.returned = "ExpectBuilder"
            /\ c # s => /\ last.raised = "AssertionError"
                        /\ last.message = <<c, s>>

\* expect_status(201) on a 200 response raised, showing 201 and 200.
C15_Witness ==
    /\ last.op = "expect_status"
    /\ last.args = <<201>>
    /\ last.response.status = 200
    /\ last.raised = "AssertionError"
    /\ last.message = <<201, 200>>

\* C16: status_ok() on a response of status s passes exactly when
\* 200 <= s <= 299, the range of the dispatcher's success test.
C16_StatusOkIs2xx ==
    last.op = "status_ok" =>
        ((last.raised = NoError) <=>
             RequestService__status_code_is_success(last.response))

\* A recursive subset match: every member of an object `subset` is a member
\* of `doc` with a value that matches in turn; anything else must be equal.
RECURSIVE SubsetMatch(_, _)
SubsetMatch(subset, doc) ==
    IF subset.t = "obj"
    THEN /\ doc.t = "obj"
         /\ \A k \in DOMAIN subset.v :
               k \in DOMAIN doc.v /\ SubsetMatch(subset.v[k], doc.v[k])
    ELSE subset = doc

\* C17: expect_json_contains(subset) on a JSON object body passes exactly
\* when the body subset-matches `subset`: {"a": 1} passes on
\* {"a": 1, "b": 2} and not on {"a": 2}.
C17_JsonContainsIsSubsetMatch ==
    (/\ last.op = "expect_json_contains"
     /\ last.args[1].t = "obj"
     /\ last.response.json.t = "obj") =>
        ((last.raised = NoError) <=>
             SubsetMatch(last.args[1], last.response.json))

\* C18: expect_json_path(expr, expected) passes exactly when every value expr
\* matches in the body equals expected, and so always when it matches none;
\* $.userId matches the top-level userId of an object and nothing in an
\* object without one or in an array.
C18_JsonPathEveryMatchEquals ==
    last.op = "expect_json_path" =>
        LET expr == last.args[1]
            expected == last.args[2]
            body == last.response.json
            matches == Expect__json_path_matches(last.response, expr).matches
        IN  /\ (last.raised = NoError) <=>
                   (\A i \in DOMAIN matches : matches[i] = expected)
            /\ last.raised \in {NoError, "AssertionError"}
            /\ matches = <<>> => last.returned = "ExpectBuilder"
            /\ (expr = PathUserId /\ body = DocPost) =>
                   ((last.raised = NoError) <=> (expected = JNum(1)))
            /\ (expr = PathUserId /\ body \in {DocEmpty, DocA1B2, DocPosts}) =>
                   last.raised = NoError

\* expect_json_path('$.userId', 1) on the body {} matched nothing and
\* returned.
C18_Witness ==
    /\ last.op = "expect_json_path"
    /\ last.args = <<PathUserId, JNum(1)>>
    /\ last.response.json = DocEmpty
    /\ last.raised = NoError
    /\ last.returned = "ExpectBuilder"

\* A document conforms to a schema {"type": "object"} when it is an object,
\* to {"type": "array"} when it is an array.
Conforms(doc, schema) ==
    CASE schema.v["type"] = JStr("object") -> doc.t = "obj"
      [] schema.v["type"] = JStr("array") -> doc.t = "arr"
      [] OTHER -> FALSE

\* C19: expect_json_schema(schema) passes when the body conforms to the
\* schema and raises a mismatch (AssertionError) when it does not.
C19_JsonSchemaValidates ==
    last.op = "expect_json_schema" =>
        IF Conforms(last.response.json, last.args[1])
        THEN last.raised = NoError
        ELSE last.raised = "AssertionError"

ExpectOps ==
    {"expect_status", "expect_json", "expect_json_contains",
     "expect_json_path", "expect_json_schema"}

\* C20: an expectation is evaluated only on an ExpectBuilder the call
\* before it in the expression returned, so never after a call that raised;
\* one that passes returns that same ExpectBuilder (over the same
\* response), and one that raises returns nothing to chain on.
C20_FailFastChain ==
    [][last'.op \in ExpectOps =>
          /\ last.returned = "ExpectBuilder"
          /\ last.raised = NoError
          /\ last'.raised = NoError =>
                /\ last'.returned = "ExpectBuilder"
                /\ last'.target = last.target
                /\ last'.response = last.response
          /\ last'.raised # NoError => last'.returned = "nothing"]_vars

\* The third expectation of an expression raised after two had passed: the
\* expression has no ExpectBuilder to go on with.
C20_Witness ==
    /\ last.op \in ExpectOps
    /\ last.chained = 3
    /\ last.raised = "AssertionError"
    /\ last.returned = "nothing"

AbsPosts == [abs |-> TRUE, path |-> <<"posts">>]
RelPosts == [abs |-> FALSE, path |-> <<"posts">>]

\* The base URL a verb's RequestBuilder is bound to.
BoundBase == dispatchers[last.target].base_url

C22_WhenSharesTheStore ==
    [][/\ \A d \in 1..Len(dispatchers') :
            dispatchers'[d].config =
                IF dispatchers'[d].builder = 0 THEN BuilderConfig
                ELSE builders'[dispatchers'[d].builder].config
       /\ \A d \in 1..Len(dispatchers) :
            LET b == dispatchers[d].builder
            IN  /\ (last'.op \in Methods /\ last'.sends > 0
                                         /\ last'.target = d) =>
                      /\ last'.options =
                            RequestConfig_update(ChainState(b).store,
                                                 last'.args).parameters
                      /\ ChainState(b)'.store = last'.options
                /\ (last'.op = "clear" /\ last'.target = d) =>
                      ChainState(b)'.store = EmptyDict]_vars

\* The first builder has two RequestBuilders.  The one that has captured
\* nothing sent a GET without overrides, and the options sent held
\* params=DictB, which no setter wrote: the override of a call on the other.
C22_Witness ==
    /\ Cardinality(DispatchersOf(0)) = 2
    /\ last.op = "GET"
    /\ last.sends = 1
    /\ last.args = <<>>
    /\ dispatchers[last.target].builder = 0
    /\ ~dispatchers[last.target].has_response
    /\ \E d \in DispatchersOf(0) \ {last.target} : dispatchers[d].has_response
    /\ "params" \in DOMAIN last.options
    /\ last.options["params"] = DictB
    /\ request_specs["query_params"] = None

\* Every expectation of ExpectBuilder modelled, and status_ok of Expect.
AllExpectOps ==
    ExpectOps \cup
    {"expect_headers", "expect_header_content_type", "expect_body",
     "expect_body_contains", "expect_key", "expect_key_value",
     "status_ok"}

\* What an expectation does when it is the only one evaluated on a response.
EvaluatedAlone(response, op, args) ==
    CASE op = "expect_status" -> Expect_status(response, args[1])
      [] op = "status_ok" -> Expect_status_ok(response)
      [] op = "expect_headers" -> Expect_headers(response, args[1])
      [] op = "expect_header_content_type" ->
            Expect_headers_content_type(response, args[1])
      [] op = "expect_body" -> Expect_body(response, args[1])
      [] op = "expect_body_contains" ->
            Expect_body_contains(response, args[1])
      [] op = "expect_key" -> Expect_key(response, args[1])
      [] op = "expect_key_value" -> Expect_key_value(response, args[1], args[2])
      [] op = "expect_json" -> Expect_json(response, args[1])
      [] op = "expect_json_contains" -> Expect_json_contains(response, args[1])
      [] op = "expect_json_path" -> Expect_json_path(response, args[1], args[2])
      [] op = "expect_json_schema" -> Expect_json_schema(response, args[1])

\* C23: evaluating an expectation changes neither the captured response nor
\* what the evaluator holds.  So an expectation evaluated after any number
\* of passing ones raises or passes exactly as it would alone on the
\* response the RequestBuilder captured, and one evaluated twice in a row
\* passes the second time as it did the first.
C23_ExpectationsAreStateless ==
    [][last'.op \in AllExpectOps =>
          /\ dispatchers' = dispatchers
          /\ heap' = heap
          /\ last'.response = last.response
          /\ LET alone == EvaluatedAlone(dispatchers[last'.target].response,
                                         last'.op, last'.args)
             IN  /\ last'.raised = alone.raised
                 /\ last'.message = alone.message
          /\ (last.op = last'.op /\ last.args = last'.args) =>
                last'.raised = last.raised]_vars

\* expect_json_contains({"userId": 1, "id": 1}) passed as the third
\* expectation of an expression on the captured response
\* [{"userId": 1, "id": 1}, {"userId": 1, "id": 2}], which is still held.
C23_Witness ==
    /\ last.op = "expect_json_contains"
    /\ last.args = <<DocPost>>
    /\ last.chained = 3
    /\ last.raised = NoError
    /\ last.response = JsonResponse(200, DocPosts)
    /\ dispatchers[last.target].response = last.response

\* The expectations that are about the parsed body, and those that are not.
JsonExpectOps ==
    {"expect_json", "expect_json_contains", "expect_key", "expect_key_value",
     "expect_json_path", "expect_json_schema"}

OtherExpectOps ==
    {"expect_status", "expect_headers", "expect_header_content_type",
     "expect_body", "expect_body_contains"}

\* The response the last call captured or evaluated has a body that is no
\* JSON document.
BodyIsNoJson == last.response # NoResponse /\ last.response.json = NotJson

\* C24, as the specification states it: with a captured body that is no
\* valid JSON, the verb call, then() and the expectations on status,
\* headers, content type and body text do not fail for it, and every
\* JSON-based expectation (json equals, json contains, key, key value, json
\* path, json schema) fails with the parse error.
C24_EveryJsonExpectationFails ==
    BodyIsNoJson =>
        /\ last.op \in Methods \cup {"then"} => last.raised = NoError
        /\ last.op \in OtherExpectOps => last.raised # "JSONDecodeError"
        /\ last.op \in JsonExpectOps => last.raised = "JSONDecodeError"

\* A JSON-based expectation that reads the body: every one but
\* expect_json_path with the empty expression.
ReadsTheBody(call) ==
    /\ call.op \in JsonExpectOps
    /\ ~(call.op = "expect_json_path" /\ call.args[1] = EmptyExpr)

\* C24: with a captured body that is no valid JSON, the verb call captures
\* the response and then() hands it on without raising; the expectations
\* on status, headers, content type and body text pass or fail by what they
\* compare (the status code, the body text); a JSON-based expectation that
\* reads the body raises JSONDecodeError and returns nothing, and
\* expect_json_path with the empty expression, which reads nothing, passes.
\* A body that is valid JSON never raises JSONDecodeError.
C24_ParseFailureAtFirstJsonRead ==
    [][/\ (last'.op \in Methods /\ last'.response \in UnparsableResponses) =>
            /\ last'.raised = NoError
            /\ last'.returned = "self"
            /\ dispatchers'[last'.target].response = last'.response
       /\ (last'.op = "then" /\ last'.response \in UnparsableResponses) =>
            /\ last'.raised = NoError
            /\ last'.returned = "ExpectBuilder"
       /\ (last'.op \in AllExpectOps /\ last.response \in UnparsableResponses) =>
            /\ last'.op \in OtherExpectOps \cup {"status_ok"} =>
                  last'.raised \in {NoError, "AssertionError", "KeyError"}
            /\ last'.op = "expect_status" =>
                  ((last'.raised = NoError) <=>
                       (last'.args[1] = last.response.status))
            /\ last'.op = "expect_body" =>
                  ((last'.raised = NoError) <=>
                       (last'.args[1] = last.response.text))
            /\ ReadsTheBody(last') =>
                  /\ last'.raised = "JSONDecodeError"
                  /\ last'.returned = "nothing"
            /\ (last'.op = "expect_json_path" /\ last'.args[1] = EmptyExpr) =>
                  /\ last'.raised = NoError
                  /\ last'.returned = "ExpectBuilder"
       /\ (last'.op \in AllExpectOps /\ last.response \notin UnparsableResponses) =>
            last'.raised # "JSONDecodeError"]_vars

\* On the captured HTML page, two expectations passed and the third,
\* expect_json, raised JSONDecodeError.
C24_Witness ==
    /\ last.op = "expect_json"
    /\ last.chained = 3
    /\ last.raised = "JSONDecodeError"
    /\ last.returned = "nothing"
    /\ last.response = TextResponse(200, HtmlHeaders, TextHtml)
    /\ dispatchers[last.target].response = last.response

\* The overrides of a call as the options they alone amount to: each key
\* with the value of its last entry.
OverridesAlone(args, options) ==
    /\ DOMAIN options = {args[i][1] : i \in DOMAIN args}
    /\ \A i \in DOMAIN args :
          (\A j \in DOMAIN args : j > i => args[j][1] # args[i][1]) =>
              options[args[i][1]] = args[i][2]

\* C25: clear() on a RequestBuilder empties the store it shares with its
\* ConfigBuilder and changes nothing else: not the response it captured,
\* not the base URL it is bound to, not the RequestSpecs.  The verb call
\* right after it that reaches the transport sends the overrides of that
\* call and nothing else, to the URL joined from the same base URL.
C25_ClearEmptiesOnlyTheStore ==
    [][/\ last'.op = "clear" =>
            /\ heap'[ConfigOf(last'.target)] = EmptyDict
            /\ last'.held = DOMAIN heap[ConfigOf(last'.target)]
            /\ dispatchers' = dispatchers
            /\ request_specs' = request_specs
            /\ last'.raised = NoError
       /\ (last.op = "clear" /\ last'.op \in Methods /\ last'.sends > 0) =>
            /\ OverridesAlone(last'.args, last'.options)
            /\ last'.url = urljoin(dispatchers[last'.target].base_url,
                                   last'.endpoint)]_vars

\* A setter had written data to the store, and a GET with the one override
\* params=DictB, on a RequestBuilder that held a response, sent params
\* alone: the store had been cleared in between.
C25_Witness ==
    /\ last.op = "GET"
    /\ last.sends = 1
    /\ last.args = <<<<"params", DictB>>>>
    /\ request_specs["data"] = StrA
    /\ DOMAIN last.options = {"params"}
    /\ last.options["params"] = DictB
    /\ last.replaced # NoResponse

\* C26: on a body that is a JSON array, expect_json_contains(x) passes
\* exactly when some element of the array equals x as a whole, and raises
\* AssertionError otherwise: on [{"userId": 1, "id": 1}, {"userId": 1,
\* "id": 2}] it passes for each of the two objects, and for nothing else;
\* not for {"userId": 1}, a part of both, nor for the array itself.
C26_JsonContainsOnArrayIsElementEquality ==
    (last.op = "expect_json_contains" /\ last.response.json.t = "arr") =>
        LET body == last.response.json
            x == last.args[1]
        IN  /\ (last.raised = NoError) <=>
                   (\E i \in DOMAIN body.v : body.v[i] = x)
            /\ last.raised \in {NoError, "AssertionError"}
            /\ body = DocPosts =>
                   ((last.raised = NoError) <=> (x \in {DocPost, DocPost2}))

\* expect_json_contains({"userId": 1}) raised AssertionError on the array
\* of the two posts, each of which has userId 1.
C26_Witness ==
    /\ last.op = "expect_json_contains"
    /\ last.args = <<DocUserId>>
    /\ last.response.json = DocPosts
    /\ last.raised = "AssertionError"
    /\ last.returned = "nothing"

\* The keys a call names in its arguments.
KeysOf(args) == {args[i][1] : i \in DOMAIN args}

\* C27: per-call overrides stay.  A verb call that reaches the transport
\* sends every key the store held before it, with the value held unless the
\* call overrides the key, and its own overrides; what it sent is what the
\* store holds after it.  No call but clear() takes a key out of a store,
\* and a value in a store changes only by a call that names its key.
C27_OverridesAreSticky ==
    [][/\ (last'.op \in Methods /\ last'.sends > 0) =>
            LET before == heap[ConfigOf(last'.target)]
            IN  /\ \A k \in DOMAIN before :
                      /\ k \in DOMAIN last'.options
                      /\ k \notin KeysOf(last'.args) =>
                            last'.options[k] = before[k]
                /\ \A i \in DOMAIN last'.args :
                      (\A j \in DOMAIN last'.args :
                            j > i => last'.args[j][1] # last'.args[i][1]) =>
                          /\ last'.args[i][1] \in DOMAIN last'.options
                          /\ last'.options[last'.args[i][1]] = last'.args[i][2]
                /\ heap'[ConfigOf(last'.target)] = last'.options
       /\ last'.op # "clear" =>
            \A r \in DOMAIN heap : \A k \in DOMAIN heap[r] :
                /\ k \in DOMAIN heap'[r]
                /\ heap'[r][k] # heap[r][k] => k \in KeysOf(last'.args)]_vars

\* A GET without overrides sent params=DictB although the setter had stored
\* DictA: an earlier call's override, still in the store.
C27_Witness ==
    /\ last.op = "GET"
    /\ last.sends = 1
    /\ last.args = <<>>
    /\ request_specs["query_params"] = DictA
    /\ "params" \in DOMAIN last.options
    /\ last.options["params"] = DictB
    /\ heap[ConfigOf(last.target)] = last.options

\* C28: a verb call with an override of no allowed type raises ValueError
\* naming that override's key before anything is sent: the transport gets
\* no request, nothing is returned, and every RequestBuilder holds the
\* response it held (or none, as before).  A verb call whose overrides are
\* all allowed does reach the transport.
C28_ValidationPrecedesDispatch ==
    [][last'.op \in Methods =>
          IF FirstRefused(last'.args) # 0
          THEN /\ last'.raised = "ValueError"
               /\ last'.key = last'.args[FirstRefused(last'.args)][1]
               /\ last'.sends = 0
               /\ last'.response = NoResponse
               /\ last'.returned = "nothing"
               /\ dispatchers' = dispatchers
          ELSE /\ last'.raised # "ValueError"
               /\ last'.sends = 1]_vars

\* A GET with params=DictB, auth=Tuple1 on a RequestBuilder that holds a 200
\* raised ValueError for auth; nothing was sent and the 200 is still held.
C28_Witness ==
    /\ last.op = "GET"
    /\ last.args = <<<<"params", DictB>>, <<"auth", Tuple1>>>>
    /\ last.raised = "ValueError"
    /\ last.key = "auth"
    /\ last.sends = 0
    /\ dispatchers[last.target].has_response
    /\ dispatchers[last.target].response = Response(200)

\* C29: a verb call the transport fails raises Error and assigns no
\* response: every RequestBuilder holds what it held, while the overrides of
\* the failed call are in the store.  The then() that follows on the same
\* RequestBuilder hands on the response of its last verb call that got one,
\* or raises AttributeError if no call ever did.
C29_FailedCallKeepsTheResponse ==
    [][/\ TransportFailed' =>
            /\ last'.raised = "Error"
            /\ last'.returned = "nothing"
            /\ dispatchers' = dispatchers
            /\ \A i \in DOMAIN last'.args :
                  (\A j \in DOMAIN last'.args :
                        j > i => last'.args[j][1] # last'.args[i][1]) =>
                      /\ last'.args[i][1] \in DOMAIN heap'[ConfigOf(last'.target)]
                      /\ heap'[ConfigOf(last'.target)][last'.args[i][1]]
                            = last'.args[i][2]
       /\ (TransportFailed /\ last'.op = "then" /\ last'.target = last.target) =>
            IF last.replaced # NoResponse
            THEN /\ last'.raised = NoError
                 /\ last'.returned = "ExpectBuilder"
                 /\ last'.response = last.replaced
            ELSE /\ last'.raised = "AttributeError"
                 /\ last'.returned = "nothing"]_vars

\* A POST with params=DictB failed at the transport on a RequestBuilder
\* that holds a 200 from an earlier call: the 200 is still held, and
\* params=DictB is in the store.
C29_Witness ==
    /\ TransportFailed
    /\ last.op = "POST"
    /\ last.args = <<<<"params", DictB>>>>
    /\ last.raised = "Error"
    /\ dispatchers[last.target].has_response
    /\ dispatchers[last.target].response = Response(200)
    /\ last.replaced = Response(200)
    /\ heap[ConfigOf(last.target)]["params"] = DictB

\* C30: an update that raises for an entry has written the entries before
\* it in the call's order, and has written neither that entry nor any after
\* it: under their keys, and under every key the call does not name, the
\* store holds what it held.
C30_UpdateIsNotAtomic ==
    [][(last'.op = "RequestConfig.update" /\ FirstRefused(last'.args) # 0) =>
          LET args == last'.args
              bad == FirstRefused(args)
              old == heap[last'.target]
              new == heap'[last'.target]
              Kept(k) == /\ (k \in DOMAIN new) = (k \in DOMAIN old)
                         /\ k \in DOMAIN old => new[k] = old[k]
          IN  /\ last'.raised = "ValueError"
              /\ \A i \in 1..(bad - 1) :
                    /\ args[i][1] \in DOMAIN new
                    /\ new[args[i][1]] = args[i][2]
              /\ \A i \in bad..Len(args) : Kept(args[i][1])
              /\ \A k \in (DOMAIN old \cup DOMAIN new) \ KeysOf(args) :
                    Kept(k)]_vars

\* update(auth='s', params=(u, p)) raised for params and left auth='s' in
\* the store, which holds nothing under params.
C30_Witness ==
    /\ last.op = "RequestConfig.update"
    /\ last.args = <<<<"auth", StrA>>, <<"params", Tuple1>>>>
    /\ last.raised = "ValueError"
    /\ last.key = "params"
    /\ DOMAIN heap[last.target] = {"auth"}
    /\ heap[last.target]["auth"] = StrA

\* C31: base_url(v) writes the RequestSpecs field and nothing else: no
\* store gets a key, no RequestBuilder changes, and no store ever holds
\* base_url, so the options sent never have it.  when() binds the new
\* RequestBuilder to the base URL the RequestSpecs hold at that moment, no
\* later call changes what a RequestBuilder is bound to, and each request
\* goes to the URL joined from the bound base URL, whatever the RequestSpecs
\* hold by then.
C31_BaseUrlIsBoundAtWhen ==
    [][/\ last'.op = "base_url" =>
            /\ heap' = heap
            /\ dispatchers' = dispatchers
            /\ last'.args[1][2] # None =>
                  request_specs'["base_url"] = last'.args[1][2]
       /\ \A r \in DOMAIN heap' : "base_url" \notin DOMAIN heap'[r]
       /\ last'.op = "when" =>
            /\ Len(dispatchers') = Len(dispatchers) + 1
            /\ dispatchers'[Len(dispatchers')].base_url
                  = request_specs["base_url"]
       /\ \A d \in DOMAIN dispatchers :
            dispatchers'[d].base_url = dispatchers[d].base_url
       /\ (last'.op \in Methods /\ last'.sends > 0) =>
            /\ "base_url" \notin DOMAIN last'.options
            /\ last'.url = urljoin(dispatchers[last'.target].base_url,
                                   last'.endpoint)]_vars

\* A GET of 'posts' on a RequestBuilder made while the base URL was
\* http://x.test/api/ went to /api/posts, although base_url() had set
\* http://x.test/v2 since.
C31_Witness ==
    /\ last.op = "GET"
    /\ last.sends = 1
    /\ last.endpoint = RelPosts
    /\ request_specs["base_url"] = UrlB
    /\ dispatchers[last.target].base_url = UrlA
    /\ last.url = [host |-> "x.test", path |-> <<"api", "posts">>]
    /\ DOMAIN last.options = {"params"}

====
